---- MODULE Spec2Model ----
(***************************************************************************)
(* Model of nexus-timers (src/src/lib.rs): a registry of named countdown   *)
(* timers behind one Mutex, mutated by a keybind callback on the input     *)
(* thread and by two per-frame render callbacks, loaded from and saved to  *)
(* timers.json.                                                            *)
(*                                                                         *)
(* Strings are sequences of tokens.  The token Prefix stands for the       *)
(* literal text KB_TIMER_START_; every other token is text that neither    *)
(* contains nor overlaps that literal, so that concatenation, equality and *)
(* trim_start_matches on token sequences are those of the Rust strings.    *)
(*                                                                         *)
(* A u64 is a function from bit positions 0..63 to {0,1}, which keeps the  *)
(* 64-bit width of Duration's seconds and the 32-bit width of the integer  *)
(* input field exact.  An Instant is a count of clock ticks of TickNanos   *)
(* nanoseconds.  An Option is a sequence of length at most one.            *)
(***************************************************************************)
EXTENDS Integers, Sequences, FiniteSets, TLC

\* ------------------------------------------------------------------ bounds

\* Last instant of the clock, in ticks.
MaxTime == 3

\* ------------------------------------------------------------- primitives

NanosPerSec == 1000000000
\* The clock ticks twice a second.
TicksPerSec == 1 + 1
TickNanos == NanosPerSec \div TicksPerSec

None == <<>>
Some(x) == <<x>>
IsSome(o) == o # <<>>
Unwrap(o) == o[1]

Bit == 0..63
Pow2(i) == 2 ^ i

\* The u64 whose value is the natural number n < 2^31.
U64(n) == [i \in Bit |-> IF i < 31 THEN (n \div Pow2(i)) % 2 ELSE 0]
\* The u64 whose set bits are exactly S.
U64OfBits(S) == [i \in Bit |-> IF i \in S THEN 1 ELSE 0]

RECURSIVE Low31(_, _)
\* The value of bits 0..i of u, for i <= 30.
Low31(u, i) == IF i < 0 THEN 0 ELSE u[i] * Pow2(i) + Low31(u, i - 1)

\* u as i32: the low 32 bits read as two's complement.
AsI32(u) == IF u[31] = 1 THEN (Low31(u, 30) - 2147483647) - 1 ELSE Low31(u, 30)

\* v as u64, for an i32 v: sign extension.
I32AsU64(v) ==
  IF v >= 0 THEN U64(v)
  ELSE LET low == (v + 2147483647) + 1
       IN [i \in Bit |-> IF i < 31 THEN (low \div Pow2(i)) % 2 ELSE 1]

\* a >= b and a - b on u64.
U64Ge(a, b) ==
  LET diff == {i \in Bit : a[i] # b[i]}
  IN diff = {} \/ a[CHOOSE i \in diff : \A j \in diff : j <= i] = 1

\* a - b - c on u64, for a borrow c of 0 or 1 and a >= b + c. A borrow enters bit
\* i when the bits below i of a hold less than those of b plus c.
U64Sub(a, b, c) ==
  LET borrow(i) ==
        LET diff == {j \in 0..(i - 1) : a[j] # b[j]}
        IN IF diff = {} THEN c
           ELSE b[CHOOSE j \in diff : \A k \in diff : k <= j]
  IN [i \in Bit |-> (a[i] - b[i] - borrow(i) + 2) % 2]

\* ---------------------------------------------------------------- Duration

\* std::time::Duration: whole seconds (u64) and nanoseconds below one second.
Duration(secs, nanos) == [secs |-> secs, nanos |-> nanos]
DurationFromSecs(u) == Duration(u, 0)

DurGe(a, b) ==
  IF a.secs = b.secs THEN a.nanos >= b.nanos ELSE U64Ge(a.secs, b.secs)

\* a - b for a >= b.
DurSub(a, b) ==
  IF a.nanos >= b.nanos
  THEN Duration(U64Sub(a.secs, b.secs, 0), a.nanos - b.nanos)
  ELSE Duration(U64Sub(a.secs, b.secs, 1), a.nanos + NanosPerSec - b.nanos)

\* Instant::elapsed: the time from `started` to the clock reading `t`.
Elapsed(started, t) ==
  Duration(U64((t - started) \div TicksPerSec),
           ((t - started) % TicksPerSec) * TickNanos)

\* --------------------------------------------------------------------- f32

\* An f32 is [m, e], the number m * 2^e, with m < 2^24 odd, or [0, 0].
RECURSIVE F32Norm(_, _)
F32Norm(m, e) ==
  IF m = 0 THEN [m |-> 0, e |-> 0]
  ELSE IF m % 2 = 0 THEN F32Norm(m \div 2, e + 1)
  ELSE [m |-> m, e |-> e]

F32Zero == F32Norm(0, 0)

\* Position of the highest set bit of u, or -1.
HighBit(u) ==
  LET set == {i \in Bit : u[i] = 1}
  IN IF set = {} THEN 0 - 1 ELSE CHOOSE i \in set : \A j \in set : j <= i

\* secs as f32: the 24 leading bits, rounded to nearest, ties to even.
U64AsF32(u) ==
  LET k == HighBit(u)
      s == k - 23
      mant == LET part[j \in 0..24] ==
                    IF j = 0 THEN 0 ELSE part[j - 1] + u[s + j - 1] * Pow2(j - 1)
              IN part[24]
      guard == u[s - 1]
      sticky == \E i \in Bit : i < s - 1 /\ u[i] = 1
      up == IF guard = 1 /\ (sticky \/ mant % 2 = 1) THEN 1 ELSE 0
  IN IF k <= 23 THEN F32Norm(Low31(u, 30), 0) ELSE F32Norm(mant + up, s)

\* a + (nanos as f32) / (NANOS_PER_SEC as f32), for a = secs as f32 and nanos a
\* whole number of ticks: the quotient is exactly 0 or 1/2.
F32AddNanos(a, nanos) ==
  LET whole == a.m * Pow2(a.e)
  IN IF nanos = 0 THEN a
     ELSE IF a.m # 0 /\ a.e + HighBit(U64(a.m)) >= 24 THEN a
     ELSE IF whole < Pow2(23) THEN F32Norm(2 * whole + 1, 0 - 1)
     ELSE IF whole % 2 = 0 THEN a
     ELSE F32Norm(whole + 1, 0)

\* Duration::as_secs_f32
AsSecsF32(d) == F32AddNanos(U64AsF32(d.secs), d.nanos)

\* The Duration an f32 below 2^64 holding a whole number of ticks stands for.
F32Fits(f) == f.m = 0 \/ f.e + HighBit(U64(f.m)) <= 63
F32ToDuration(f) ==
  IF f.e < 0
  THEN Duration(U64(f.m \div 2), (f.m % 2) * TickNanos)
  ELSE Duration([i \in Bit |-> IF i >= f.e /\ i - f.e <= 30
                                THEN (f.m \div Pow2(i - f.e)) % 2 ELSE 0], 0)

\* ------------------------------------------------------------------- Timer

Prefix == "KB_TIMER_START_"

\* format!("KB_TIMER_START_{}", self.name)
KeybindId(name) == <<Prefix>> \o name

RECURSIVE TrimStartMatches(_)
\* id.trim_start_matches("KB_TIMER_START_"): every leading repetition goes.
TrimStartMatches(id) ==
  IF id # <<>> /\ Head(id) = Prefix THEN TrimStartMatches(Tail(id)) ELSE id

Timer(name, duration, started) ==
  [name |-> name, duration |-> duration, started |-> started]

\* Index of the first Timer named `name`, or 0: iter_mut().find(|t| t.name == name)
FindByName(ts, name) ==
  LET hits == {i \in 1..Len(ts) : ts[i].name = name}
  IN IF hits = {} THEN 0 ELSE CHOOSE i \in hits : \A j \in hits : i <= j

\* timer.started = Some(Instant::now()) on the first Timer named `name`.
RestartByName(ts, name, t) ==
  LET i == FindByName(ts, name)
  IN IF i = 0 THEN ts
     ELSE [ts EXCEPT ![i] = Timer(ts[i].name, ts[i].duration, Some(t))]

\* ------------------------------------------------------------- persistence

\* A serializer that writes whole seconds only.
SerializeTimerWholeSecs(t) ==
  [name |-> t.name, secs |-> t.duration.secs, nanos |-> 0]

\* #[derive(Serialize)] with #[serde(skip)] on started: one record per Timer,
\* its name and its duration as {secs, nanos}.
SerializeTimer(t) ==
  [name |-> t.name, secs |-> t.duration.secs, nanos |-> t.duration.nanos]
ToStringPretty(ts) == [i \in 1..Len(ts) |-> SerializeTimer(ts[i])]

\* #[derive(Deserialize)] with #[serde(skip, default)] on started.
DeserializeTimer(r) == Timer(r.name, Duration(r.secs, r.nanos), None)
FromReader(records) == [i \in 1..Len(records) |-> DeserializeTimer(records[i])]

\* The file at config_path(): missing, not JSON for Vec<Timer>, or an array.
MissingFile == [kind |-> "missing", records |-> <<>>]
\* A file cut short: `records` are those complete before the cut.
TruncatedFile(records) == [kind |-> "invalid", records |-> records]
JsonFile(records) == [kind |-> "json", records |-> records]

UnreadableFile == [kind |-> "unreadable", records |-> <<>>]

\* A parser that keeps the records it read before the error.
ReadConfigKeepsPartial(f) == FromReader(f.records)

\* let config: Vec<Timer> = ...: an unopenable or unparsable file gives Vec::new().
ReadConfig(f) == IF f.kind = "json" THEN FromReader(f.records) ELSE <<>>

\* ------------------------------------------------------------------ inputs

NameA == <<"a">>
NameB == <<"b">>
NamePA == <<Prefix, "a">>

\* Records a timers.json may hold: whole seconds, fractional seconds, a count
\* of seconds no f32 holds (2^24 + 1) under a name that starts with the keybind
\* prefix, and a count beyond the i32 range (2^32 + 1) under a name used twice.
RecA == [name |-> NameA, secs |-> U64(1), nanos |-> 0]
RecB == [name |-> NameB, secs |-> U64(1), nanos |-> TickNanos]
RecPA == [name |-> NamePA, secs |-> U64OfBits({0, 24}), nanos |-> 0]
RecA2 == [name |-> NameA, secs |-> U64OfBits({0, 32}), nanos |-> 0]

\* The files the addon may find at its first load.
Files ==
  { MissingFile, UnreadableFile, TruncatedFile(<<RecA>>), JsonFile(<<>>),
    JsonFile(<<RecA>>), JsonFile(<<RecB>>), JsonFile(<<RecPA>>), JsonFile(<<RecA2>>),
    JsonFile(<<RecA, RecA2>>), JsonFile(<<RecPA, RecA>>) }

\* What the user may type into a row's integer field (an i32), or leave it.
NoEdit == None
TypedSeconds == {0 - 1, 3}
RowInputs == {NoEdit} \cup {Some(v) : v \in TypedSeconds}
\* What the user may put into the Add row's fields.
TypedNames == {<<>>, NameA}
TypedAddSeconds == {0 - 1}

\* ------------------------------------------------------------------- state

VARIABLES
  file,          \* the content of timers.json
  loaded,        \* TIMERS (the OnceLock) is set
  timers,        \* the Vec<Timer> inside the Mutex
  poisoned,      \* the Mutex is poisoned
  lock,          \* who holds the Mutex: "free", "host" or "input"
  bound,         \* the keybind identifiers registered with the host
  renders,       \* the render callbacks registered with the host
  NEW_NAME,      \* thread-local text of the Add row
  NEW_DURATION,  \* thread-local seconds of the Add row
  now,           \* the monotonic clock, in ticks
  hpc,           \* where the host's load/render/unload thread is
  config,        \* load's local Vec<Timer>
  bindIdx,       \* load's position in `for timer in &config`
  to_remove,     \* render_options' local: the row indices queued for removal
  tmp_timers,    \* render_options' local: the Vec taken out of the Mutex
  row_input,     \* what input_int received in each row of the running rows loop
  hres,          \* how the host thread's last call ended: "ok" or "panic"
  ipc,           \* where the input thread's keybind callback is
  cbId,          \* the identifier the running callback was called with
  ires,          \* how the last keybind callback ended: "ok" or "panic"
  shown,         \* the windows the running display pass has built: name and value
  snapshot       \* history: the Registry at the last unload, and whether it was written

vars ==
  << file, loaded, timers, poisoned, lock, bound, renders, NEW_NAME, NEW_DURATION,
     now, hpc, config, bindIdx, to_remove, tmp_timers, row_input, hres, ipc, cbId,
     ires, shown, snapshot >>

hostLocals == << config, bindIdx, to_remove, tmp_timers, row_input >>
inputVars == << ipc, cbId, ires >>
addRow == << NEW_NAME, NEW_DURATION >>

\* No unload has come before the load that runs or has run.
NoSnapshot == [written |-> FALSE, timers |-> <<>>]

\* A process that has not run load(): statics and thread-locals at their initial
\* values, nothing registered with the host.
Fresh ==
  /\ loaded = FALSE
  /\ timers = <<>>
  /\ poisoned = FALSE
  /\ lock = "free"
  /\ bound = {}
  /\ renders = {}
  /\ NEW_NAME = <<>>
  /\ NEW_DURATION = 0
  /\ now = 0
  /\ hpc = "start"
  /\ config = <<>>
  /\ bindIdx = 1
  /\ to_remove = {}
  /\ tmp_timers = <<>>
  /\ row_input = <<>>
  /\ hres = "ok"
  /\ ipc = "idle"
  /\ cbId = <<>>
  /\ ires = "ok"
  /\ shown = <<>>

Init ==
  /\ file \in Files
  /\ Fresh
  /\ snapshot = NoSnapshot

\* -------------------------------------------------------------------- load

\* load(), lines 83-93: read and parse timers.json.
LoadRead ==
  /\ hpc = "start"
  /\ config' = ReadConfig(file)
  /\ bindIdx' = 1
  /\ hpc' = "load_bind"
  /\ UNCHANGED << file, loaded, timers, poisoned, lock, bound, renders, addRow, now,
                  to_remove, tmp_timers, row_input, hres, inputVars, shown, snapshot >>

\* load(), lines 94-97: one turn of the loop, timer.register_keybind().
LoadBind ==
  /\ hpc = "load_bind"
  /\ bindIdx <= Len(config)
  /\ bound' = bound \cup {KeybindId(config[bindIdx].name)}
  /\ bindIdx' = bindIdx + 1
  /\ UNCHANGED << file, loaded, timers, poisoned, lock, renders, addRow, now, hpc,
                  config, to_remove, tmp_timers, row_input, hres, inputVars, shown,
                  snapshot >>

\* load(), lines 98-100: TIMERS.set(Mutex::new(config)).expect(..).
LoadSet ==
  /\ hpc = "load_bind"
  /\ bindIdx > Len(config)
  /\ IF loaded
     THEN /\ hres' = "panic"
          /\ hpc' = "stopped"
          /\ UNCHANGED << loaded, timers, config >>
     ELSE /\ loaded' = TRUE
          /\ timers' = config
          /\ config' = <<>>
          /\ hpc' = "load_render"
          /\ hres' = hres
  /\ UNCHANGED << file, poisoned, lock, bound, renders, addRow, now, bindIdx,
                  to_remove, tmp_timers, row_input, inputVars, shown, snapshot >>

\* load(), lines 102-103: register both per-frame callbacks.
LoadRegisterRender ==
  /\ hpc = "load_render"
  /\ renders' = {"Render", "OptionsRender"}
  /\ hpc' = "idle"
  /\ hres' = "ok"
  /\ snapshot' = NoSnapshot
  /\ UNCHANGED << file, loaded, timers, poisoned, lock, bound, addRow, now,
                  hostLocals, inputVars, shown >>

\* ---------------------------------------------------------- keybind callback

\* The host calls the handler of a registered identifier; lines 56-60.
\* A release returns at once.
KeyEvent(id, is_release) ==
  /\ ipc = "idle"
  /\ id \in bound
  /\ IF is_release
     THEN /\ ires' = "ok"
          /\ UNCHANGED << ipc, cbId >>
     ELSE /\ ipc' = "cb_lock"
          /\ cbId' = id
          /\ ires' = ires
  /\ UNCHANGED << file, loaded, timers, poisoned, lock, bound, renders, addRow, now,
                  hpc, hostLocals, hres, shown, snapshot >>

\* A handler that goes on without waiting for the Mutex to be free.
CbLockNoWait ==
  /\ ipc = "cb_lock"
  /\ IF ~loaded \/ poisoned
     THEN /\ ipc' = "idle"
          /\ ires' = "panic"
          /\ cbId' = <<>>
          /\ lock' = lock
     ELSE /\ ipc' = "cb_find"
          /\ ires' = ires
          /\ cbId' = cbId
          /\ lock' = "input"
  /\ UNCHANGED << file, loaded, timers, poisoned, bound, renders, addRow, now, hpc,
                  hostLocals, hres, shown, snapshot >>

\* A handler that takes the guard out of a poisoned Mutex and goes on.
CbLockRecovers ==
  /\ ipc = "cb_lock"
  /\ IF ~loaded
     THEN /\ ipc' = "idle"
          /\ ires' = "panic"
          /\ cbId' = <<>>
          /\ lock' = lock
     ELSE /\ lock = "free"
          /\ ipc' = "cb_find"
          /\ ires' = ires
          /\ cbId' = cbId
          /\ lock' = "input"
  /\ UNCHANGED << file, loaded, timers, poisoned, bound, renders, addRow, now, hpc,
                  hostLocals, hres, shown, snapshot >>

\* Line 61: TIMERS.get().expect("Timers to be set").lock().unwrap().
CbLock ==
  /\ ipc = "cb_lock"
  /\ IF ~loaded
     THEN /\ ipc' = "idle"
          /\ ires' = "panic"
          /\ cbId' = <<>>
          /\ lock' = lock
     ELSE /\ lock = "free"
          /\ IF poisoned
             THEN /\ ipc' = "idle"
                  /\ ires' = "panic"
                  /\ cbId' = <<>>
                  /\ lock' = lock
             ELSE /\ ipc' = "cb_find"
                  /\ ires' = ires
                  /\ cbId' = cbId
                  /\ lock' = "input"
  /\ UNCHANGED << file, loaded, timers, poisoned, bound, renders, addRow, now, hpc,
                  hostLocals, hres, shown, snapshot >>

\* Lines 60, 62-65: look the trimmed name up, restart the Timer found, unlock.
CbFind ==
  /\ ipc = "cb_find"
  /\ timers' = RestartByName(timers, TrimStartMatches(cbId), now)
  /\ lock' = "free"
  /\ ipc' = "idle"
  /\ ires' = "ok"
  /\ cbId' = <<>>
  /\ UNCHANGED << file, loaded, poisoned, bound, renders, addRow, now, hpc,
                  hostLocals, hres, shown, snapshot >>

\* ------------------------------------------------------------- display pass

\* A display that counts whole seconds: as_secs() as f32.
RestWholeSeconds(timer, t) ==
  LET elapsed == Elapsed(Unwrap(timer.started), t)
  IN IF DurGe(elapsed, timer.duration) THEN F32Zero
     ELSE U64AsF32(DurSub(timer.duration, elapsed).secs)

\* Lines 110-116: the value render_fn prints for a running Timer at clock t.
Rest(timer, t) ==
  LET elapsed == Elapsed(Unwrap(timer.started), t)
  IN IF DurGe(elapsed, timer.duration) THEN F32Zero
     ELSE AsSecsF32(DurSub(timer.duration, elapsed))

\* Lines 108-118: one window per running Timer, in Registry order.
Windows(ts, t) ==
  LET running == SelectSeq(ts, LAMBDA x : IsSome(x.started))
  IN [i \in 1..Len(running) |-> [name |-> running[i].name, rest |-> Rest(running[i], t)]]

\* Line 107: render_fn takes the lock.
RenderFnLock ==
  /\ hpc = "idle"
  /\ "Render" \in renders
  /\ IF ~loaded
     THEN /\ hres' = "panic"
          /\ UNCHANGED << hpc, lock >>
     ELSE /\ lock = "free"
          /\ IF poisoned
             THEN /\ hres' = "panic"
                  /\ UNCHANGED << hpc, lock >>
             ELSE /\ hpc' = "rf_locked"
                  /\ lock' = "host"
                  /\ hres' = hres
  /\ UNCHANGED << file, loaded, timers, poisoned, bound, renders, addRow, now,
                  hostLocals, inputVars, shown, snapshot >>

\* A display pass that stops the Timers it finds expired.
RenderFnBodyStopsExpired ==
  /\ hpc = "rf_locked"
  /\ shown' = Windows(timers, now)
  /\ timers' = [i \in 1..Len(timers) |->
                  IF IsSome(timers[i].started)
                     /\ DurGe(Elapsed(Unwrap(timers[i].started), now), timers[i].duration)
                  THEN Timer(timers[i].name, timers[i].duration, None)
                  ELSE timers[i]]
  /\ hpc' = "rf_drawn"
  /\ UNCHANGED << file, loaded, poisoned, lock, bound, renders, addRow, now,
                  hostLocals, hres, inputVars, snapshot >>

\* Lines 108-118: build the windows.
RenderFnBody ==
  /\ hpc = "rf_locked"
  /\ shown' = Windows(timers, now)
  /\ hpc' = "rf_drawn"
  /\ UNCHANGED << file, loaded, timers, poisoned, lock, bound, renders, addRow, now,
                  hostLocals, hres, inputVars, snapshot >>

\* Line 119: render_fn returns and drops the guard; the frame is over.
RenderFnReturn ==
  /\ hpc = "rf_drawn"
  /\ shown' = <<>>
  /\ lock' = "free"
  /\ hpc' = "idle"
  /\ hres' = "ok"
  /\ UNCHANGED << file, loaded, timers, poisoned, bound, renders, addRow, now,
                  hostLocals, inputVars, snapshot >>

\* ------------------------------------------------------------- editing pass

\* A row that stores whatever the field holds: the test of line 134 left out.
RowDurationWraps(timer, typed) ==
  LET shownSeconds == AsI32(timer.duration.secs)
      seconds == IF IsSome(timer.started) \/ typed = NoEdit
                 THEN shownSeconds ELSE Unwrap(typed)
  IN DurationFromSecs(I32AsU64(seconds))

\* Lines 130-136: the duration a row leaves in its Timer, `typed` being what
\* the user put into the integer field this frame (None: nothing).
RowDuration(timer, typed) ==
  LET shownSeconds == AsI32(timer.duration.secs)
      seconds == IF IsSome(timer.started) \/ typed = NoEdit
                 THEN shownSeconds ELSE Unwrap(typed)
  IN IF seconds >= 0 THEN DurationFromSecs(I32AsU64(seconds)) ELSE timer.duration

\* Lines 145-149: the Timers whose index is not in `removed`, in order.
Retain(ts, removed) ==
  LET kept[i \in 0..Len(ts)] ==
        IF i = 0 THEN <<>>
        ELSE IF i \in removed THEN kept[i - 1] ELSE Append(kept[i - 1], ts[i])
  IN kept[Len(ts)]

\* Line 122: render_options takes the lock.
OptionsLock ==
  /\ hpc = "idle"
  /\ "OptionsRender" \in renders
  /\ IF ~loaded
     THEN /\ hres' = "panic"
          /\ UNCHANGED << hpc, lock >>
     ELSE /\ lock = "free"
          /\ IF poisoned
             THEN /\ hres' = "panic"
                  /\ UNCHANGED << hpc, lock >>
             ELSE /\ hpc' = "opt_rows"
                  /\ lock' = "host"
                  /\ hres' = hres
  /\ UNCHANGED << file, loaded, timers, poisoned, bound, renders, addRow, now,
                  hostLocals, inputVars, shown, snapshot >>

\* Line 124: begin_table gives no table (the options tab is clipped): return.
OptionsNoTable ==
  /\ hpc = "opt_rows"
  /\ lock' = "free"
  /\ hpc' = "idle"
  /\ hres' = "ok"
  /\ UNCHANGED << file, loaded, timers, poisoned, bound, renders, addRow, now,
                  hostLocals, inputVars, shown, snapshot >>

\* Lines 125-142: the loop over the rows. typed[i] is the user's input in row
\* i's integer field and `deleted` the rows whose Delete button was pressed.
OptionsRows(typed, deleted) ==
  /\ hpc = "opt_rows"
  /\ timers' = [i \in 1..Len(timers) |->
                  Timer(timers[i].name, RowDuration(timers[i], typed[i]),
                        timers[i].started)]
  /\ to_remove' = deleted
  /\ row_input' = typed
  /\ bound' = bound \ {KeybindId(timers[i].name) : i \in deleted}
  /\ hpc' = "opt_take"
  /\ UNCHANGED << file, loaded, poisoned, lock, renders, addRow, now, config,
                  bindIdx, tmp_timers, hres, inputVars, shown, snapshot >>

\* Line 143: let tmp_timers = std::mem::take(&mut *timers).
OptionsTake ==
  /\ hpc = "opt_take"
  /\ tmp_timers' = timers
  /\ timers' = <<>>
  /\ row_input' = <<>>
  /\ hpc' = "opt_collect"
  /\ UNCHANGED << file, loaded, poisoned, lock, bound, renders, addRow, now, config,
                  bindIdx, to_remove, hres, inputVars, shown, snapshot >>

\* Lines 144-149: *timers = the Timers not queued for removal.
OptionsCollect ==
  /\ hpc = "opt_collect"
  /\ timers' = Retain(tmp_timers, to_remove)
  /\ tmp_timers' = <<>>
  /\ hpc' = "opt_add"
  /\ UNCHANGED << file, loaded, poisoned, lock, bound, renders, addRow, now, config,
                  bindIdx, to_remove, row_input, hres, inputVars, shown, snapshot >>

\* Lines 150-162: the Add row's fields. `name` and `seconds` are their content
\* after this frame's input.
OptionsAddInput(name, seconds) ==
  /\ hpc = "opt_add"
  /\ NEW_NAME' = name
  /\ NEW_DURATION' = seconds
  /\ hpc' = "opt_button"
  /\ UNCHANGED << file, loaded, timers, poisoned, lock, bound, renders, now,
                  hostLocals, hres, inputVars, shown, snapshot >>

\* Lines 164-177: the Add button, then the return, which drops the guard.
\* With a non-empty name, NEW_NAME.replace runs while with_borrow still borrows
\* NEW_NAME: the RefCell panics before Timer::new or push is reached, and the
\* unwinding drops the guard of the Registry, which poisons the Mutex.
OptionsAddButton(pressed) ==
  /\ hpc = "opt_button"
  /\ IF pressed /\ NEW_NAME # <<>>
     THEN /\ poisoned' = TRUE
          /\ hres' = "panic"
     ELSE /\ poisoned' = poisoned
          /\ hres' = "ok"
  /\ to_remove' = {}
  /\ lock' = "free"
  /\ hpc' = "idle"
  /\ UNCHANGED << file, loaded, timers, bound, renders, addRow, now, config,
                  bindIdx, tmp_timers, row_input, inputVars, shown, snapshot >>

\* ------------------------------------------------------------------ unload

\* Line 181: unload takes the lock.
UnloadLock ==
  /\ hpc = "idle"
  /\ IF ~loaded
     THEN /\ hres' = "panic"
          /\ hpc' = "stopped"
          /\ renders' = {}
          /\ lock' = lock
     ELSE /\ lock = "free"
          /\ IF poisoned
             THEN /\ hres' = "panic"
                  /\ hpc' = "stopped"
                  /\ renders' = {}
                  /\ lock' = lock
             ELSE /\ hpc' = "unload_write"
                  /\ lock' = "host"
                  /\ UNCHANGED << hres, renders >>
  /\ UNCHANGED << file, loaded, timers, poisoned, bound, addRow, now, hostLocals,
                  inputVars, shown, snapshot >>

\* Lines 182-187: serialize and write, the result of the write ignored; then
\* the host reverts the render callbacks (revert_on_unload, lines 102-103).
\* The write replaces the file, leaves it as it was, or leaves it cut short.
UnloadWrite(outcome) ==
  /\ hpc = "unload_write"
  /\ file' = IF outcome = "written" THEN JsonFile(ToStringPretty(timers))
             ELSE IF outcome = "truncated" THEN TruncatedFile(<<>>)
             ELSE file
  /\ snapshot' = [written |-> outcome = "written", timers |-> timers]
  /\ renders' = {}
  /\ lock' = "free"
  /\ hpc' = "stopped"
  /\ hres' = "ok"
  /\ UNCHANGED << loaded, timers, poisoned, bound, addRow, now, hostLocals,
                  inputVars, shown >>

\* The addon is loaded anew: the library's statics and thread-locals start
\* over, the host has dropped the keybinds of the unloaded addon, the new
\* process counts its instants from its own start. The file stays.
Reload ==
  /\ hpc = "stopped"
  /\ ipc = "idle"
  /\ loaded' = FALSE
  /\ timers' = <<>>
  /\ poisoned' = FALSE
  /\ lock' = "free"
  /\ bound' = {}
  /\ renders' = {}
  /\ NEW_NAME' = <<>>
  /\ NEW_DURATION' = 0
  /\ now' = 0
  /\ hpc' = "start"
  /\ config' = <<>>
  /\ bindIdx' = 1
  /\ to_remove' = {}
  /\ tmp_timers' = <<>>
  /\ row_input' = <<>>
  /\ hres' = "ok"
  /\ ipc' = "idle"
  /\ cbId' = <<>>
  /\ ires' = "ok"
  /\ shown' = <<>>
  /\ UNCHANGED << file, snapshot >>

\* ------------------------------------------------------------------- clock

Tick ==
  /\ now < MaxTime
  /\ now' = now + 1
  /\ UNCHANGED << file, loaded, timers, poisoned, lock, bound, renders, addRow, hpc,
                  hostLocals, hres, inputVars, shown, snapshot >>

\* -------------------------------------------------------------------- spec

Next ==
  \/ LoadRead
  \/ LoadBind
  \/ LoadSet
  \/ LoadRegisterRender
  \/ \E id \in bound, is_release \in BOOLEAN : KeyEvent(id, is_release)
  \/ CbLock
  \/ CbFind
  \/ RenderFnLock
  \/ RenderFnBody
  \/ RenderFnReturn
  \/ OptionsLock
  \/ OptionsNoTable
  \/ \E typed \in [1..Len(timers) -> RowInputs], deleted \in SUBSET (1..Len(timers)) :
       OptionsRows(typed, deleted)
  \/ OptionsTake
  \/ OptionsCollect
  \/ \E name \in TypedNames, seconds \in TypedAddSeconds \cup {NEW_DURATION} :
       OptionsAddInput(name, seconds)
  \/ \E pressed \in BOOLEAN : OptionsAddButton(pressed)
  \/ UnloadLock
  \/ \E outcome \in {"written", "failed", "truncated"} : UnloadWrite(outcome)
  \/ Reload
  \/ Tick

Spec == Init /\ [][Next]_vars

\* ------------------------------------------------------------------ claims

Names(ts) == {ts[i].name : i \in 1..Len(ts)}

\* C1: in every reachable state no two Timers of the Registry have the same
\* name.
C1_NamesUnique ==
  \A i, j \in 1..Len(timers) : i # j => timers[i].name # timers[j].name

\* C2: once an editing pass has removed the rows whose Delete was pressed, no
\* Timer with a deleted row's name is found by name; and a keybind callback
\* that runs for an identifier whose Timer was deleted (the identifier is no
\* longer registered) does not fail and leaves the Registry as it is.
C2_DeletedStaysGone ==
  [][ /\ (hpc = "opt_collect" /\ hpc' = "opt_add"
            => \A i \in to_remove : FindByName(timers', tmp_timers[i].name) = 0)
      /\ (ipc = "cb_lock" /\ ipc' # "cb_lock" /\ loaded /\ cbId \notin bound
            => ires' = "ok")
      /\ (ipc = "cb_find" /\ ipc' = "idle" /\ cbId \notin bound
            => ires' = "ok" /\ timers' = timers) ]_vars

\* C3: the rows of an editing pass leave the duration of every running Timer
\* exactly as it was.
C3_RunningDurationKept ==
  [][ hpc = "opt_rows" /\ hpc' = "opt_take"
        => \A i \in 1..Len(timers) :
             IsSome(timers[i].started) => timers'[i].duration = timers[i].duration ]_vars

\* C4: a keybind callback that runs at clock reading t for the identifier of a
\* Timer of the Registry leaves that Timer with started = Some(t), whatever its
\* started was.
C4_ActivationRestarts ==
  [][ ipc = "cb_find" /\ ipc' = "idle"
        => \A i \in 1..Len(timers) :
             KeybindId(timers[i].name) = cbId
               => Len(timers') = Len(timers) /\ timers'[i].started = Some(now) ]_vars

Running(ts) == SelectSeq(ts, LAMBDA x : IsSome(x.started))
DurZero == Duration(U64(0), 0)
DurDist(a, b) == IF DurGe(a, b) THEN DurSub(a, b) ELSE DurSub(b, a)

C6_RoundTrip ==
  [][ hpc = "load_bind" /\ hpc' = "load_render" /\ snapshot.written
        => /\ Len(timers') = Len(snapshot.timers)
           /\ \A i \in 1..Len(snapshot.timers) :
                /\ timers'[i].name = snapshot.timers[i].name
                /\ timers'[i].duration = snapshot.timers[i].duration
                /\ timers'[i].started = None ]_vars

\* Witness of C6: load has stored two Timers written by an unload at which one
\* of them was running.
C6_Witness ==
  /\ hpc = "load_render"
  /\ snapshot.written
  /\ Len(snapshot.timers) = 2
  /\ Len(timers) = 2
  /\ \E i \in 1..2 : IsSome(snapshot.timers[i].started)

\* C7: a load that finds the file missing, unreadable or not valid JSON ends
\* without a panic, with the Registry set and empty, no keybind registered
\* and both render callbacks registered.
C7_SoftLoad ==
  [][ /\ (hpc = "load_bind" /\ hpc' # "load_bind" /\ file.kind # "json"
            => hpc' = "load_render" /\ hres' = "ok" /\ loaded' /\ timers' = <<>>)
      /\ (hpc = "load_render" /\ hpc' # "load_render" /\ file.kind # "json"
            => /\ hpc' = "idle"
               /\ hres' = "ok"
               /\ loaded' /\ ~poisoned'
               /\ timers' = <<>>
               /\ bound' = {}
               /\ renders' = {"Render", "OptionsRender"}) ]_vars

\* Witness of C7: load has ended on a file cut short.
C7_Witness ==
  /\ hpc = "idle"
  /\ file = TruncatedFile(<<RecA>>)
  /\ loaded
  /\ timers = <<>>
  /\ renders = {"Render", "OptionsRender"}

\* C8: the Add button ends the editing pass without a panic; pressed with a
\* non-empty name n and s seconds in the Add row it appends Timer(n, s seconds,
\* not started) to the Registry, registers KB_TIMER_START_n and resets the Add
\* row to the empty name and 0; otherwise the Registry, the keybinds and the
\* Add row stay as they are.
C8_AddAppends ==
  [][ hpc = "opt_button" /\ hpc' # "opt_button"
        => /\ hpc' = "idle"
           /\ hres' = "ok"
           /\ \/ UNCHANGED << timers, bound, NEW_NAME, NEW_DURATION >>
              \/ /\ NEW_NAME # <<>>
                 /\ NEW_DURATION >= 0
                 /\ timers' = Append(timers, Timer(NEW_NAME,
                                 DurationFromSecs(U64(NEW_DURATION)), None))
                 /\ bound' = bound \cup {KeybindId(NEW_NAME)}
                 /\ NEW_NAME' = <<>>
                 /\ NEW_DURATION' = 0 ]_vars

\* C9: a keybind callback for KB_TIMER_START_n, n the name of a Timer of the
\* Registry, restarts the first Timer named n and changes nothing else.
C9_RestartsNamedTimer ==
  [][ ipc = "cb_find" /\ ipc' = "idle"
        => \A n \in Names(timers) :
             cbId = KeybindId(n)
               => LET first == CHOOSE i \in 1..Len(timers) :
                                 /\ timers[i].name = n
                                 /\ \A j \in 1..(i - 1) : timers[j].name # n
                  IN timers' = [timers EXCEPT ![first].started = Some(now)] ]_vars

\* C10: whenever load has set the Registry and nobody holds its lock, the
\* registered keybind identifiers are exactly those of the Registry's Timers.
C10_BindingsMatch ==
  loaded /\ lock = "free" /\ hpc \in {"idle", "stopped"}
    => bound = {KeybindId(n) : n \in Names(timers)}

HostSections ==
  {"rf_locked", "rf_drawn", "opt_rows", "opt_take", "opt_collect", "opt_add",
   "opt_button", "unload_write"}
InputInSection == ipc = "cb_find"
HostInSection == hpc \in HostSections

Exclusion ==
  /\ ~(InputInSection /\ HostInSection)
  /\ InputInSection <=> lock = "input"
  /\ HostInSection <=> lock = "host"

\* C12: the trigger callback is never inside its critical section while the
\* display pass, the editing pass or unload is inside its own; the lock is
\* held exactly while one of them is inside, so it is free once they have
\* returned; and after load the Registry, and what the display pass shows of
\* it, changes only in a step taken inside a critical section.
C12_MutualExclusion ==
  [][ /\ Exclusion
      /\ Exclusion'
      /\ loaded /\ loaded' /\ (timers' # timers \/ shown' # shown)
           => InputInSection \/ HostInSection ]_vars

\* Witness of C12: a trigger callback waits for the lock while the editing
\* pass, holding it, has taken the Timers out of the Registry.
C12_Witness ==
  /\ ipc = "cb_lock"
  /\ hpc = "opt_collect"
  /\ lock = "host"
  /\ tmp_timers # <<>>

\* C13: when a trigger callback for Timer T meets an editing pass that
\* deletes T, the callback never reads the Registry while the pass has it
\* taken apart, the pass leaves no Timer named T and completes, and a
\* callback that gets the lock after the pass (its identifier is no longer
\* bound) leaves every Timer other than T as it was.
C13_TriggerDeleteRace ==
  [][ /\ InputInSection => tmp_timers = <<>> /\ to_remove = {}
      /\ hpc = "opt_collect" /\ hpc' = "opt_add" /\ ipc = "cb_lock"
           => \A i \in to_remove :
                KeybindId(tmp_timers[i].name) = cbId
                  => tmp_timers[i].name \notin Names(timers')
      /\ ipc = "cb_find" /\ ipc' = "idle" /\ cbId \notin bound
           => /\ Len(timers') = Len(timers)
              /\ \A i \in 1..Len(timers) :
                   KeybindId(timers[i].name) # cbId => timers'[i] = timers[i]
      /\ hpc = "opt_button" /\ hpc' # "opt_button" /\ to_remove # {}
         /\ ipc = "cb_lock" /\ cbId \notin bound
           => hres' = "ok" ]_vars

\* The kept positions of a sequence of length n from which the positions in
\* S are removed, and the place a kept position gets.
KeptRows(n, S) == {i \in 1..n : i \notin S}
NewRow(i, S) == Cardinality({j \in 1..i : j \notin S})

\* C14: an editing pass in which Delete was pressed on the rows S, and in
\* which nothing was typed, leaves the Registry equal to the sequence before
\* the pass with the Timers at the positions in S removed, the others in
\* their order, and unbinds the identifiers of the Timers in S and no other.
C14_DeleteRemovesRows ==
  [][ /\ hpc = "opt_rows" /\ hpc' = "opt_take" /\ to_remove' # {}
         /\ (\A i \in 1..Len(timers) : row_input'[i] = NoEdit)
           => /\ Len(timers') = Len(timers)
              /\ \A i \in KeptRows(Len(timers), to_remove') : timers'[i] = timers[i]
              /\ \A id \in bound :
                   id \notin bound'
                     <=> \E i \in to_remove' : id = KeybindId(timers[i].name)
              /\ bound' \subseteq bound
      /\ hpc = "opt_take" /\ hpc' = "opt_collect"
           => tmp_timers' = timers /\ to_remove' = to_remove
      /\ hpc = "opt_collect" /\ hpc' = "opt_add"
           => /\ Len(timers') = Cardinality(KeptRows(Len(tmp_timers), to_remove))
              /\ \A i \in KeptRows(Len(tmp_timers), to_remove) :
                   timers'[NewRow(i, to_remove)] = tmp_timers[i] ]_vars

\* C15: a trigger event that is a release, or whose identifier is that of a
\* name no Timer of the initialized Registry has, ends normally and leaves
\* the Registry as it was.
C15_ReleaseOrMissNoOp ==
  [][ /\ ipc = "idle" /\ ipc' = "idle" /\ ires' # ires /\ hpc' = hpc
           => ires' = "ok" /\ timers' = timers
      /\ ipc \in {"cb_lock", "cb_find"} /\ ipc' = "idle" /\ loaded
         /\ (\A i \in 1..Len(timers) : KeybindId(timers[i].name) # cbId)
           => ires' = "ok" /\ timers' = timers ]_vars

\* The Timers of the Registry, wherever the editing pass holds them.
Held == IF hpc = "opt_collect" THEN tmp_timers ELSE timers

\* C16: in every step of the running addon that keeps the Timers in place, a
\* Timer whose started is Some keeps a started that is Some, and a started
\* that changes was changed by a trigger callback, to the time of the
\* activation; the removal step keeps the started of every Timer it keeps.
C16_StartedStaysSet ==
  [][ /\ Len(Held') = Len(Held) /\ ~(hpc = "opt_collect" /\ hpc' = "opt_add")
         /\ ~(hpc = "stopped" /\ hpc' = "start")
           => \A i \in 1..Len(Held) :
                /\ IsSome(Held[i].started) => IsSome(Held'[i].started)
                /\ Held'[i].started # Held[i].started
                     => /\ ipc = "cb_find" /\ ipc' = "idle"
                        /\ Held'[i].started = Some(now)
      /\ hpc = "opt_collect" /\ hpc' = "opt_add"
           => \A i \in KeptRows(Len(tmp_timers), to_remove) :
                timers'[NewRow(i, to_remove)].started = tmp_timers[i].started ]_vars

\* Witness of C16: the display pass shows 0 for a Timer that expired, and
\* the Timer is still started.
C16_Witness ==
  /\ hpc = "rf_drawn"
  /\ Len(timers) = 1
  /\ IsSome(timers[1].started)
  /\ DurGe(Elapsed(Unwrap(timers[1].started), now), timers[1].duration)
  /\ Len(shown) = 1
  /\ shown[1].rest = F32Zero

\* C17: an operation that fails while it holds the lock leaves the Mutex
\* poisoned; while the Mutex is poisoned, until the addon is loaded anew,
\* it stays poisoned, nobody gets the lock, the Registry and the display
\* stay as they are, and every trigger callback, display pass, editing pass
\* and unload that comes to the lock ends there with a failure.
C17_PoisonIsFinal ==
  [][ /\ lock # "free"
         /\ ((hres' = "panic" /\ hres' # hres) \/ (ires' = "panic" /\ ires' # ires))
           => poisoned'
      /\ poisoned /\ ~(hpc = "stopped" /\ hpc' = "start")
           => /\ poisoned'
              /\ lock = "free" /\ lock' = "free"
              /\ timers' = timers
              /\ shown' = shown
              /\ ipc = "cb_lock" /\ ipc' # "cb_lock" => ipc' = "idle" /\ ires' = "panic"
              /\ hpc' # hpc => hpc = "idle" /\ hpc' = "stopped" /\ hres' = "panic"
              /\ hres' # hres => hres' = "panic" ]_vars

\* Witness of C17: with the Mutex poisoned, a trigger callback has failed
\* and unload has failed.
C17_Witness ==
  /\ poisoned
  /\ ires = "panic"
  /\ hpc = "stopped"
  /\ hres = "panic"
  /\ timers # <<>>

\* C18: every trigger callback, display pass, editing pass and unload that
\* comes to the lock of the initialized Registry gets it, and every one that
\* got it completes normally and leaves the lock free.
C18_EveryCallCompletes ==
  [][ /\ loaded /\ ipc = "cb_lock" /\ ipc' # "cb_lock"
           => ipc' = "cb_find" /\ lock' = "input"
      /\ loaded /\ hpc = "idle" /\ (hpc' # hpc \/ hres' # hres)
           => hpc' \in HostSections /\ lock' = "host"
      /\ ipc = "cb_find" /\ ipc' # "cb_find"
           => ires' = "ok" /\ lock' = "free"
      /\ hpc \in HostSections /\ hpc' \notin HostSections
           => hres' = "ok" /\ lock' = "free" ]_vars

\* C19: an editing pass in which nothing is typed in any row and no Delete
\* is pressed leaves every Timer of the Registry exactly as it was: the rows
\* loop changes nothing and the removal step puts back what was taken.
C19_IdlePassKeepsRegistry ==
  [][ /\ hpc = "opt_rows" /\ hpc' = "opt_take" /\ to_remove' = {}
         /\ (\A i \in 1..Len(timers) : row_input'[i] = NoEdit)
           => timers' = timers
      /\ hpc = "opt_rows" /\ hpc' = "idle"
           => timers' = timers
      /\ hpc = "opt_collect" /\ hpc' = "opt_add" /\ to_remove = {}
           => timers' = tmp_timers ]_vars

\* C20: a trigger callback that comes to the Registry, the Mutex not being
\* poisoned, finds the Registry initialized and gets its lock: load has set
\* TIMERS before any callback it made invocable runs.
C20_CallbackFindsRegistry ==
  [][ ipc = "cb_lock" /\ ipc' # "cb_lock" /\ ~poisoned
        => loaded /\ ipc' = "cb_find" /\ ires' = ires ]_vars

====
